---- MODULE Spec2Model ----
(***************************************************************************)
(* Model of spc_system_v2.py: the hourly sample generator (mhConverter),    *)
(* the p-chart limits (calculate_control_limits, initialize_control_limits),*)
(* the Nelson-rule inspector (inspection) and the monitoring loop           *)
(* (run_simulation).                                                        *)
(*                                                                          *)
(* Numbers.  Rates and limits are real numbers in the program.  Here they   *)
(* are exact rationals written as integers over a common denominator, so    *)
(* that every comparison the program makes is made exactly:                 *)
(*   - in the monitoring loop a rate defects/production is the integer      *)
(*     defects * RateScale / production, RateScale being a common multiple  *)
(*     of every positive production count that can be drawn;                *)
(*   - x > CL + (UCL - CL) * 2/3 is compared after multiplying by 3.        *)
(* NaN and infinite limits (numpy's answer when the warm-up mean is above 1 *)
(* or the mean production is not positive) are outside this number domain.  *)
(***************************************************************************)
EXTENDS Integers, Sequences, FiniteSets, TLC

(* ------------------------------ bounds --------------------------------- *)

\* Rule-inspector harness: histories of at most MaxLen points on the grid
\* {0, RateStep, ..., MaxRate * RateStep}; limits CL in 0..MaxCL and
\* 3*std_dev in 0..MaxSpread.
MaxLen == 8
MaxRate == 5
RateStep == 2
MaxCL == 2
MaxSpread == 4

\* Monitoring loop: at most MaxHour ticks; a Poisson draw of at most
\* MaxDefects; the random draws are written in units of 1/DrawDen; the
\* warm-up mean is in 0..MaxWarmCL and a positive 3*std_dev is WarmSpread
\* (in units of 1/RateScale).
MaxHour == 2
MaxDefects == 2
DrawDen == 2
MaxWarmCL == 1
WarmSpread == 1

(* --------------------------- the inspector ----------------------------- *)

RULE1 == "KURAL 1: Kontrol disi nokta"
RULE2 == "KURAL 2: Sistematik kayma"
RULE3_INC == "KURAL 3: Artan trend"
RULE3_DEC == "KURAL 3: Azalan trend"
RULE4 == "KURAL 4: Varyans artisi"
IN_CONTROL == "Surec kontrol altinda"

\* data[-k:] of a Python list: the last k elements, the whole list when it
\* has fewer.
LastK(data, k) ==
    LET n == Len(data)
    IN  IF n <= k THEN data ELSE SubSeq(data, n - k + 1, n)

\* The values a list holds: all(P(x) for x in s) is \A x \in Elems(s) : P(x).
Elems(s) == {s[i] : i \in 1..Len(s)}

\* Faulty variant of rule1: the limits themselves count as out of control.
rule1_inclusive(data, CL, UCL, LCL) ==
    data[Len(data)] >= UCL \/ data[Len(data)] <= LCL

rule1(data, CL, UCL, LCL) ==
    data[Len(data)] > UCL \/ data[Len(data)] < LCL

\* Faulty variant of rule2: a point on the centre line counts for either side.
rule2_inclusive(data, CL) ==
    /\ Len(data) >= 7
    /\ LET last_7 == LastK(data, 7)
       IN  \/ (\A x \in Elems(last_7) : x >= CL)
           \/ (\A x \in Elems(last_7) : x <= CL)

rule2(data, CL) ==
    /\ Len(data) >= 7
    /\ LET last_7 == LastK(data, 7)
           above_cl == (\A x \in Elems(last_7) : x > CL)
           below_cl == (\A x \in Elems(last_7) : x < CL)
       IN  above_cl \/ below_cl

\* Faulty variant of increasing: a tie between neighbours is let through.
increasing_weak(data) ==
    LET last_6 == LastK(data, 6)
    IN  \A i \in 1..5 : last_6[i] <= last_6[i + 1]

increasing(data) ==
    LET last_6 == LastK(data, 6)
    IN  \A i \in 1..5 : last_6[i] < last_6[i + 1]

decreasing(data) ==
    LET last_6 == LastK(data, 6)
    IN  \A i \in 1..5 : last_6[i] > last_6[i + 1]

\* Faulty variant of rule4: a point on the two-thirds threshold counts as above it.
rule4_inclusive(data, CL, UCL) ==
    /\ Len(data) >= 4
    /\ LET last_4 == LastK(data, 4)
       IN  /\ (\A x \in Elems(last_4) : x > CL /\ x < UCL)
           /\ (\A x \in Elems(last_4) : 3 * x >= 3 * CL + (UCL - CL) * 2)

\* mid_upper = CL + (UCL - CL) * 2/3; x > mid_upper is compared as
\* 3 * x > 3 * CL + (UCL - CL) * 2.
rule4(data, CL, UCL) ==
    /\ Len(data) >= 4
    /\ LET last_4 == LastK(data, 4)
           upper_zone == (\A x \in Elems(last_4) : x > CL /\ x < UCL)
           upper_extreme == (\A x \in Elems(last_4) : 3 * x > 3 * CL + (UCL - CL) * 2)
       IN  upper_extreme /\ upper_zone

\* Faulty variant of inspection: the early return for an empty history is missing.
inspection_no_empty_return(data, CL, UCL, LCL) ==
    LET c1 == IF data # << >> /\ rule1(data, CL, UCL, LCL) THEN << RULE1 >> ELSE << >>
        c2 == IF rule2(data, CL) THEN << RULE2 >> ELSE << >>
        c3 == IF Len(data) >= 6
              THEN IF increasing(data) THEN << RULE3_INC >>
                   ELSE IF decreasing(data) THEN << RULE3_DEC >>
                   ELSE << >>
              ELSE << >>
        c4 == IF rule4(data, CL, UCL) THEN << RULE4 >> ELSE << >>
        comments == c1 \o c2 \o c3 \o c4
    IN  IF comments = << >> THEN << IN_CONTROL >> ELSE comments

inspection(data, CL, UCL, LCL) ==
    IF Len(data) = 0 THEN << >>
    ELSE
      LET c1 == IF rule1(data, CL, UCL, LCL) THEN << RULE1 >> ELSE << >>
          c2 == IF rule2(data, CL) THEN << RULE2 >> ELSE << >>
          c3 == IF Len(data) >= 6
                THEN IF increasing(data) THEN << RULE3_INC >>
                     ELSE IF decreasing(data) THEN << RULE3_DEC >>
                     ELSE << >>
                ELSE << >>
          c4 == IF rule4(data, CL, UCL) THEN << RULE4 >> ELSE << >>
          comments == c1 \o c2 \o c3 \o c4
      IN  IF comments = << >> THEN << IN_CONTROL >> ELSE comments

(* ------------------------- the control limits -------------------------- *)

Max(a, b) == IF a >= b THEN a ELSE b

\* UCL = CL + 3 * std_dev, LCL = max(0, CL - 3 * std_dev).  CL (the mean of
\* the warm-up rates) and three_sigma (3 * sqrt(CL * (1 - CL) / avg_n)) are
\* real-valued functions of the warm-up draws and enter as arguments.
calculate_control_limits(CL, three_sigma) ==
    [CL |-> CL, UCL |-> CL + three_sigma, LCL |-> Max(0, CL - three_sigma)]

(* ------------------------- the sample generator ------------------------ *)

\* The registry; two of its eight entries, all of the same shape.
PRODUCTION_LINES ==
    << [name |-> "First Exterior", monthly_production |-> 800000, monthly_defects |-> 11000],
       [name |-> "First Interior", monthly_production |-> 950000, monthly_defects |-> 10000] >>

NumLines == Len(PRODUCTION_LINES)

LineNames == {PRODUCTION_LINES[i].name : i \in 1..NumLines}

\* int(x) of a float x = draw / DrawDen: truncation towards zero.
int(draw) == IF draw >= 0 THEN draw \div DrawDen ELSE -((-draw) \div DrawDen)

\* np.random.normal has every real in its support (sigma > 0): the draws, in
\* units of 1/DrawDen, run from below -1 to just below 2, so that
\* int() yields -1, 0 and 1.
NormalDraws == (1 - 2 * DrawDen) .. (2 * DrawDen - 1)

\* np.random.poisson(lam) with lam > 0 has every natural number in its support.
PoissonDraws == 0..MaxDefects

\* The largest production count int() can yield, and a common multiple of
\* the positive ones: the denominator of the rates.
MaxProd == int(2 * DrawDen - 1)

RECURSIVE Factorial(_)
Factorial(n) == IF n <= 1 THEN 1 ELSE n * Factorial(n - 1)

RateScale == Factorial(MaxProd)

\* mhConverter with its two random draws as arguments.  lam =
\* (monthly_defects / monthly_production) * hourly_production has the sign of
\* monthly_defects * hourly_production; np.random.poisson raises ValueError
\* for lam < 0 and returns 0 for lam = 0 (and for -0.0).
mhConverter(monthly_production, monthly_defects, normal_draw, poisson_draw) ==
    LET hourly_production == int(normal_draw)
        lam_sign == monthly_defects * hourly_production
        hourly_defects == IF lam_sign = 0 THEN 0 ELSE poisson_draw
        failure_rate == IF hourly_production > 0
                        THEN (hourly_defects * RateScale) \div hourly_production
                        ELSE 0
    IN  IF lam_sign < 0
        THEN [raised |-> TRUE, prod |-> hourly_production, defects |-> 0, rate |-> 0]
        ELSE [raised |-> FALSE, prod |-> hourly_production,
              defects |-> hourly_defects, rate |-> failure_rate]

(* ------------------------------- state --------------------------------- *)

VARIABLES
    pc,             \* where run_simulation is: "baseline", "tick", "wait",
                    \* "done", "crashed" ("harness": not running)
    line_idx,       \* position of the current for-loop in PRODUCTION_LINES
    control_limits, \* line name -> [CL, UCL, LCL], filled during baseline
    hourly_data,    \* line name -> [hours, rates, productions]
    current_hour,   \* the tick counter (0 before the loop)
    sample,         \* the latest return (or raise) of mhConverter
    user_input,     \* the latest control signal, stripped and lower-cased
    summary,        \* the total printed at termination (0: nothing printed)
    call            \* the latest call of inspection: its arguments and result

vars == << pc, line_idx, control_limits, hourly_data, current_hour, sample,
           user_input, summary, call >>

NoCall == [data |-> << >>, CL |-> 0, UCL |-> 0, LCL |-> 0, result |-> << "none" >>]

NoSample == [raised |-> FALSE, prod |-> 1, defects |-> 0, rate |-> 0, drawn |-> FALSE]

NoInput == "none"

Drawn(s) == [raised |-> s.raised, prod |-> s.prod, defects |-> s.defects,
             rate |-> s.rate, drawn |-> TRUE]

(* --------------------------- the monitoring loop ----------------------- *)

Init ==
    /\ pc = "baseline"
    /\ line_idx = 1
    /\ control_limits = << >>
    /\ hourly_data = << >>
    /\ current_hour = 0
    /\ sample = NoSample
    /\ user_input = NoInput
    /\ summary = 0
    /\ call = NoCall

\* Faulty variant of limits_of: every line is inspected against the first line's limits.
limits_of_first(line_name) == control_limits[PRODUCTION_LINES[1].name]

\* limits = control_limits[line_name]
limits_of(line_name) == control_limits[line_name]

\* Faulty variant of append_sample: the three lists are shared by all lines.
append_sample_shared(line_name, prod, rate) ==
    [l \in DOMAIN hourly_data |->
        [hours |-> Append(hourly_data[l].hours, current_hour),
         rates |-> Append(hourly_data[l].rates, rate),
         productions |-> Append(hourly_data[l].productions, prod)]]

\* hourly_data[line_name]['hours'|'rates'|'productions'].append(...)
append_sample(line_name, prod, rate) ==
    [hourly_data EXCEPT
        ![line_name] = [hours |-> Append(@.hours, current_hour),
                        rates |-> Append(@.rates, rate),
                        productions |-> Append(@.productions, prod)]]

\* std_dev = sqrt(CL * (1 - CL) / avg_n) is 0 when the warm-up mean CL is 0
\* and positive when CL is positive (and below 1).
WarmupSpreads(CL) == IF CL = 0 THEN {0} ELSE {WarmSpread}

\* One pass of the baseline for-loop: initialize_control_limits for the
\* current line.  Its warm-up calls mhConverter 50 times; (z, k) are the
\* draws of one of these calls, and a raising call ends the program with the
\* exception.  Otherwise the limits are calculate_control_limits of the
\* warm-up mean and 3*std_dev, which are what the 50 draws made them.
initialize_control_limits ==
    /\ pc = "baseline"
    /\ line_idx <= NumLines
    /\ LET line == PRODUCTION_LINES[line_idx]
       IN  \E z \in NormalDraws, k \in PoissonDraws :
             LET s == mhConverter(line.monthly_production, line.monthly_defects, z, k)
             IN  IF s.raised
                 THEN /\ pc' = "crashed"
                      /\ sample' = Drawn(s)
                      /\ UNCHANGED << line_idx, control_limits >>
                 ELSE \E CL \in 0..MaxWarmCL : \E three_sigma \in WarmupSpreads(CL) :
                      /\ control_limits' =
                            control_limits @@ (line.name :> calculate_control_limits(CL, three_sigma))
                      /\ line_idx' = line_idx + 1
                      /\ sample' = Drawn(s)
                      /\ pc' = pc
    /\ UNCHANGED << hourly_data, current_hour, user_input, summary, call >>

\* The histories are created empty and the loop is entered at hour 1.
start_loop ==
    /\ pc = "baseline"
    /\ line_idx > NumLines
    /\ hourly_data' = [l \in LineNames |->
                         [hours |-> << >>, rates |-> << >>, productions |-> << >>]]
    /\ current_hour' = 1
    /\ line_idx' = 1
    /\ pc' = "tick"
    /\ UNCHANGED << control_limits, sample, user_input, summary, call >>

\* One pass of the for-loop of a tick: sample, append, inspect.  After the
\* last line the loop blocks in input().
process_line ==
    /\ pc = "tick"
    /\ line_idx <= NumLines
    /\ LET line == PRODUCTION_LINES[line_idx]
           limits == limits_of(line.name)
       IN  \E z \in NormalDraws, k \in PoissonDraws :
             LET s == mhConverter(line.monthly_production, line.monthly_defects, z, k)
             IN  IF s.raised
                 THEN /\ pc' = "crashed"
                      /\ sample' = Drawn(s)
                      /\ UNCHANGED << line_idx, hourly_data, call >>
                 ELSE /\ hourly_data' = append_sample(line.name, s.prod, s.rate)
                      /\ call' = [data |-> hourly_data'[line.name].rates,
                                  CL |-> limits.CL, UCL |-> limits.UCL, LCL |-> limits.LCL,
                                  result |-> inspection(hourly_data'[line.name].rates,
                                                        limits.CL, limits.UCL, limits.LCL)]
                      /\ sample' = Drawn(s)
                      /\ line_idx' = line_idx + 1
                      /\ pc' = IF line_idx = NumLines THEN "wait" ELSE "tick"
    /\ UNCHANGED << control_limits, current_hour, user_input, summary >>

\* What the driver may type, and input(...).strip().lower() of it.
RawInputs == {"", "q", " Q "}

strip_lower(raw) ==
    CASE raw = "" -> ""
      [] raw = "q" -> "q"
      [] raw = " Q " -> "q"

\* The control signal is read; 'q' prints the summary and breaks, anything
\* else starts the next hour.
read_input ==
    /\ pc = "wait"
    /\ \E raw \in RawInputs :
         /\ user_input' = strip_lower(raw)
         /\ IF user_input' = "q"
            THEN /\ summary' = current_hour
                 /\ pc' = "done"
                 /\ UNCHANGED << current_hour, line_idx >>
            ELSE /\ current_hour < MaxHour
                 /\ current_hour' = current_hour + 1
                 /\ line_idx' = 1
                 /\ pc' = "tick"
                 /\ UNCHANGED summary
    /\ UNCHANGED << control_limits, hourly_data, sample, call >>

Next ==
    \/ initialize_control_limits
    \/ start_loop
    \/ process_line
    \/ read_input

Spec == Init /\ [][Next]_vars

(* ---------------- the inspector on a growing rate series --------------- *)

RateGrid == {RateStep * i : i \in 0..MaxRate}

InspectLimits ==
    {calculate_control_limits(c, s) : c \in 0..MaxCL, s \in 0..MaxSpread}

Abs(x) == IF x < 0 THEN -x ELSE x

InspectCall(data, lim) ==
    [data |-> data, CL |-> lim.CL, UCL |-> lim.UCL, LCL |-> lim.LCL,
     result |-> inspection(data, lim.CL, lim.UCL, lim.LCL)]

InitInspect ==
    /\ pc = "harness"
    /\ line_idx = 1
    /\ control_limits = << >>
    /\ hourly_data = << >>
    /\ current_hour = 0
    /\ sample = NoSample
    /\ user_input = NoInput
    /\ summary = 0
    /\ \E lim \in InspectLimits : call = InspectCall(<< >>, lim)

\* One more rate is appended to the series and the series is inspected, as
\* the loop does each hour; the new rate is within one grid step of the last.
AppendAndInspect ==
    /\ Len(call.data) < MaxLen
    /\ \E x \in RateGrid :
         /\ call.data # << >> => Abs(x - call.data[Len(call.data)]) <= RateStep
         /\ call' = InspectCall(Append(call.data, x),
                                [CL |-> call.CL, UCL |-> call.UCL, LCL |-> call.LCL])
    /\ UNCHANGED << pc, line_idx, control_limits, hourly_data, current_hour,
                    sample, user_input, summary >>

NextInspect == AppendAndInspect

SpecInspect == InitInspect /\ [][NextInspect]_vars

(* ------------------ claims about the inspector (C1..C5) ---------------- *)

Reported(m) == \E i \in 1..Len(call.result) : call.result[i] = m

Count(m) == Cardinality({i \in 1..Len(call.result) : call.result[i] = m})

Inspected == call.result # << "none" >>

\* The positions of the last k points of the inspected history.
LastIdx(k) == {i \in 1..Len(call.data) : i > Len(call.data) - k}

Fires1 ==
    /\ call.data # << >>
    /\ \/ call.data[Len(call.data)] > call.UCL
       \/ call.data[Len(call.data)] < call.LCL

Fires2 ==
    /\ Len(call.data) >= 7
    /\ \/ \A i \in LastIdx(7) : call.data[i] > call.CL
       \/ \A i \in LastIdx(7) : call.data[i] < call.CL

Rising == \A i \in LastIdx(5) : call.data[i - 1] < call.data[i]

Falling == \A i \in LastIdx(5) : call.data[i - 1] > call.data[i]

Fires3 == Len(call.data) >= 6 /\ (Rising \/ Falling)

\* x > CL + (UCL - CL) * 2/3  iff  3 * x > CL + 2 * UCL.
Fires4 ==
    /\ Len(call.data) >= 4
    /\ \A i \in LastIdx(4) :
         /\ call.CL < call.data[i]
         /\ call.data[i] < call.UCL
         /\ 3 * call.data[i] > call.CL + 2 * call.UCL

\* C1: for a non-empty history Rule 1 is reported iff the most recent rate is
\* strictly above UCL or strictly below LCL; a last rate equal to a limit
\* does not fire it and earlier points do not matter.
C1_Rule1 ==
    (Inspected /\ call.data # << >>) => (Reported(RULE1) <=> Fires1)

\* The last rate sits exactly on UCL after an earlier point above UCL, and
\* Rule 1 is not reported.
C1_Witness ==
    /\ Inspected
    /\ Len(call.data) >= 2
    /\ call.data[Len(call.data)] = call.UCL
    /\ call.data[Len(call.data) - 1] > call.UCL
    /\ call.LCL < call.UCL
    /\ ~Reported(RULE1)

\* C2: Rule 2 is reported iff the history has at least 7 points and the last
\* 7 are all strictly above CL or all strictly below CL.
C2_Rule2 ==
    Inspected => (Reported(RULE2) <=> Fires2)

\* Eight points, the oldest one below CL and the last seven above: Rule 2 is
\* reported.
C2_Witness ==
    /\ Inspected
    /\ Len(call.data) = 8
    /\ call.data[1] < call.CL
    /\ \A i \in 2..8 : call.data[i] > call.CL
    /\ Reported(RULE2)

\* C3: a Rule 3 message is reported iff the history has at least 6 points
\* and the last 6 are strictly increasing or strictly decreasing; never more
\* than one Rule 3 message.
C3_Rule3 ==
    Inspected =>
      /\ (Reported(RULE3_INC) \/ Reported(RULE3_DEC)) <=> Fires3
      /\ Reported(RULE3_INC) => (Len(call.data) >= 6 /\ Rising)
      /\ Reported(RULE3_DEC) => (Len(call.data) >= 6 /\ Falling)
      /\ Count(RULE3_INC) + Count(RULE3_DEC) <= 1

\* Eight points whose last six fall strictly after a tie between the first
\* two: the decreasing-trend message is reported.
C3_Witness ==
    /\ Inspected
    /\ Len(call.data) = 8
    /\ call.data[2] = call.data[3]
    /\ Falling
    /\ Reported(RULE3_DEC)
    /\ ~Reported(RULE3_INC)

Rule3Message == IF Rising THEN << RULE3_INC >> ELSE << RULE3_DEC >>

ExpectedComments ==
    (IF Fires1 THEN << RULE1 >> ELSE << >>)
    \o (IF Fires2 THEN << RULE2 >> ELSE << >>)
    \o (IF Fires3 THEN Rule3Message ELSE << >>)
    \o (IF Fires4 THEN << RULE4 >> ELSE << >>)

\* C5: the result is empty for an empty history; otherwise the single
\* in-control marker when no rule fires; otherwise the messages of exactly
\* the rules that fire, in rule order, without the marker.
C5_Result ==
    Inspected =>
      /\ call.data = << >> => call.result = << >>
      /\ (call.data # << >> /\ ~(Fires1 \/ Fires2 \/ Fires3 \/ Fires4))
           => call.result = << IN_CONTROL >>
      /\ (call.data # << >> /\ (Fires1 \/ Fires2 \/ Fires3 \/ Fires4))
           => (call.result = ExpectedComments /\ ~Reported(IN_CONTROL))

\* Rules 2 and 4 fire on the same history, Rules 1 and 3 do not, and the
\* two messages are reported together in rule order.
C5_Witness ==
    /\ Inspected
    /\ Fires2 /\ Fires4 /\ ~Fires1 /\ ~Fires3
    /\ call.result = << RULE2, RULE4 >>

(* ----------------- claims about the generator (C6, C7) ----------------- *)

\* C6: a call of mhConverter that draws a non-positive production count does
\* not fail and returns a defect rate of 0.
C6_NonPositiveProductionGivesZeroRate ==
    (sample.drawn /\ sample.prod <= 0) => (~sample.raised /\ sample.rate = 0)

\* C7: a sample with a positive production count has a defect rate in
\* [0, 1]: its defect count does not exceed its production count.
C7_RateWithinUnitInterval ==
    (sample.drawn /\ ~sample.raised /\ sample.prod > 0) =>
      /\ 0 <= sample.rate /\ sample.rate <= RateScale
      /\ sample.defects <= sample.prod

(* --------------- claims about the monitoring loop (C8..C10) ------------ *)

InLoop == pc \in {"tick", "wait", "done"} \/ (pc = "crashed" /\ current_hour >= 1)

\* A step of process_line that returned from mhConverter and went on.
LineProcessed == pc = "tick" /\ line_idx' = line_idx + 1

\* C8: every line's limits are set once, before the first tick, and never
\* change afterwards; the inspector is called with the limits of the line
\* it inspects.
C8_LimitsFrozen ==
    /\ [](InLoop => DOMAIN control_limits = LineNames)
    /\ [][/\ \A l \in DOMAIN control_limits :
               l \in DOMAIN control_limits' /\ control_limits'[l] = control_limits[l]
          /\ InLoop => control_limits' = control_limits
          /\ LineProcessed =>
               LET own == control_limits[PRODUCTION_LINES[line_idx].name]
               IN  /\ call'.CL = own.CL
                   /\ call'.UCL = own.UCL
                   /\ call'.LCL = own.LCL]_vars

\* Second hour done; the two lines have different limits and the latest
\* inspection, of the last line, was given the last line's limits.
C8_Witness ==
    /\ pc = "wait"
    /\ current_hour = 2
    /\ control_limits[PRODUCTION_LINES[1].name] # control_limits[PRODUCTION_LINES[NumLines].name]
    /\ call.UCL = control_limits[PRODUCTION_LINES[NumLines].name].UCL
    /\ call.UCL # control_limits[PRODUCTION_LINES[1].name].UCL

\* The number of ticks every line has completed (the shortest history).
TicksDone ==
    IF hourly_data = << >> THEN 0
    ELSE CHOOSE k \in 0..current_hour :
           /\ \A l \in LineNames : Len(hourly_data[l].hours) >= k
           /\ \E l \in LineNames : Len(hourly_data[l].hours) = k

\* C9: the loop ends only on a stop signal, and then the summary reports
\* the number of ticks executed; a stop generates no further sample.
C9_EndsOnlyOnStop ==
    (pc \in {"done", "crashed"} /\ current_hour >= 1) =>
      /\ user_input = "q"
      /\ summary = TicksDone

\* C9, the part about the normal exit: when the loop has broken out, the
\* latest signal was a stop and the summary is the number of ticks run.
C9_NormalExit ==
    pc = "done" =>
      /\ user_input = "q"
      /\ summary = current_hour
      /\ \A l \in LineNames : Len(hourly_data[l].hours) = summary

IsPrefix(s, t) == Len(s) <= Len(t) /\ SubSeq(t, 1, Len(s)) = s

HistoryShape(l) ==
    LET h == hourly_data[l]
    IN  /\ Len(h.rates) = Len(h.hours)
        /\ Len(h.productions) = Len(h.hours)
        /\ \A i \in 1..Len(h.hours) : h.hours[i] = i

\* C10: after k completed ticks each line's three lists have length k with
\* tick indices 1..k; a step appends one element to one line's lists or
\* leaves every list alone; no earlier entry changes.
C10_AppendOnlyHistory ==
    /\ [](hourly_data # << >> =>
           /\ \A l \in LineNames : HistoryShape(l)
           /\ pc \in {"wait", "done"} =>
                \A l \in LineNames : Len(hourly_data[l].hours) = current_hour
           /\ pc = "tick" =>
                \A i \in 1..NumLines :
                  Len(hourly_data[PRODUCTION_LINES[i].name].hours)
                    = IF i < line_idx THEN current_hour ELSE current_hour - 1)
    /\ [][hourly_data # << >> =>
           /\ \A l \in LineNames :
                /\ IsPrefix(hourly_data[l].hours, hourly_data'[l].hours)
                /\ IsPrefix(hourly_data[l].rates, hourly_data'[l].rates)
                /\ IsPrefix(hourly_data[l].productions, hourly_data'[l].productions)
                /\ Len(hourly_data'[l].hours) <= Len(hourly_data[l].hours) + 1
           /\ Cardinality({l \in LineNames : hourly_data'[l] # hourly_data[l]}) <= 1
           /\ LineProcessed =>
                hourly_data'[PRODUCTION_LINES[line_idx].name] #
                  hourly_data[PRODUCTION_LINES[line_idx].name]]_vars

\* Two ticks completed: both lines hold two entries, and different ones.
C10_Witness ==
    /\ pc = "wait"
    /\ current_hour = 2
    /\ \A l \in LineNames : hourly_data[l].hours = << 1, 2 >>
    /\ hourly_data[PRODUCTION_LINES[1].name].rates # hourly_data[PRODUCTION_LINES[2].name].rates
    /\ hourly_data[PRODUCTION_LINES[1].name].productions
         # hourly_data[PRODUCTION_LINES[2].name].productions

====
